---- MODULE Spec2Model ----
(***************************************************************************)
(* A model of kidney-train.py: the IOU loss/metric (IOU_, sparse_iou,      *)
(* make_train_op), the shape algebra of the U-Net graph (conv_conv_pool,   *)
(* upsample_concat, upsampling_2D, make_unet), image_augmentation, and the *)
(* control flow of main (checkpoint directory start-up, training and       *)
(* evaluation loops, coordinator shutdown).                                *)
(*                                                                         *)
(* Tensors are modelled by exact values: a number of the IOU computation   *)
(* is a quotient of two polynomials in eps (the 1e-7 of IOU_), so no       *)
(* rounding is modelled; a tensor shape is a record of its dimensions.     *)
(***************************************************************************)
EXTENDS Integers, Sequences, FiniteSets, TLC

VARIABLES
    \* ---- one session run of the loss and of the metric
    pcI,        \* "fed" | "train" | "eval": which sess.run was executed
    classesI,   \* number of channels of pred (flags.channels)
    y_pred,     \* pred fed to the loss: [sample -> [pixel -> [channel -> value]]]
    y_true,     \* y: [sample -> [pixel -> value]]
    lossV,      \* value of the loss tensor of make_train_op, or NoValue
    iouV,       \* value of IOU_op, or NoValue
    \* ---- the construction of the graph by make_unet
    pcU,        \* the statement of make_unet to run next, "done" or "ValueError"
    X,          \* shape of the input placeholder: [N, H, W, C]
    classesU,   \* the classes argument
    tensors,    \* shapes of the tensors built so far: net, conv1, pool1, ..., in order
    concats,    \* the upsample_concat calls made so far: [inputA, input_B, upsample, up]
    output,     \* shape of the tensor make_unet returned, or NoShape
    \* ---- one call of image_augmentation
    pcA,        \* "call" | "augmented"
    image,      \* the image argument: [row -> [column -> <<r, g, b>>]]
    mask,       \* the mask argument: [row -> [column -> <<m>>]]
    augmented,  \* the pair returned: [image, mask], or NoValue
    \* ---- the run of main
    pc,             \* the statement of main to run next, "done" or "raised"
    epochs,         \* flags.epochs
    batch_size,     \* flags.batch_size
    n_train,        \* get_line_num(flags.train)
    n_test,         \* get_line_num(flags.test)
    ckdir,          \* what flags.ckdir is on disk
    ckpt_step,      \* the global step stored in the checkpoint of flags.ckdir
    epoch,          \* the variable epoch of the outer loop
    step,           \* the variable step of the inner loops
    global_step,    \* the value of the global step variable of the session
    weights,        \* the number of updates the model variables have received
    initial_step,   \* the global step at the entry of the try block
    train_iters,    \* training iterations completed
    eval_iters,     \* evaluation iterations completed
    mode,           \* the value fed to the placeholder mode by the last run
    stop_requested, \* the coordinator was asked to stop
    threads,        \* the queue-runner threads of the two input pipelines
    coord_exc,      \* an exception a thread reported to the coordinator
    exc,            \* the exception main is raising, or "none"
    entered_try,    \* the try block was entered
    shutdown,       \* the steps of the finally block completed, in order
    saves           \* the calls of saver.save completed

varsI == <<pcI, classesI, y_pred, y_true, lossV, iouV>>
varsU == <<pcU, X, classesU, tensors, concats, output>>
varsA == <<pcA, image, mask, augmented>>
varsFlags == <<epochs, batch_size, n_train, n_test>>
varsLoop == <<epoch, step, global_step, weights, initial_step, train_iters, eval_iters, mode>>
varsCoord == <<stop_requested, threads, coord_exc>>
varsM == <<pc, varsFlags, ckdir, ckpt_step, varsLoop, varsCoord, exc, entered_try,
           shutdown, saves>>
vars == <<varsI, varsU, varsA, varsM>>

NoValue == "none"

\* module docstring, line 12: a vehicle pixel of a mask is 255, a background pixel 0
VehicleValue == 255

(***************************************************************************)
(* Bounds of the model.                                                    *)
(***************************************************************************)
MaxBatch == 2      \* largest number of images of a batch
MaxClasses == 2    \* largest number of classes (flags.channels)
MaxPix == 3        \* largest number of pixels of a batch given to the loss
MaxSide == 33      \* largest height and width of the input of make_unet
MaxAug == 2        \* largest height and width of an image given to image_augmentation
MaxEpochs == 2     \* largest flags.epochs
MaxBatchSize == 2  \* largest flags.batch_size
MaxLines == 3      \* largest line count of a CSV file
MaxCkptStep == 1   \* largest global step stored in a checkpoint found at start-up

(***************************************************************************)
(* Exact arithmetic.  A polynomial in eps is the sequence of its           *)
(* coefficients, lowest degree first; a value is num / den.  Two values    *)
(* are compared by cross-multiplication, as polynomials: equal polynomials *)
(* are equal numbers, and polynomials whose coefficients stay below        *)
(* 1 / eps = 10^7 in absolute value are equal numbers only if they are     *)
(* equal polynomials.                                                      *)
(***************************************************************************)
RECURSIVE SumTo(_, _)
SumTo(f, n) == IF n = 0 THEN 0 ELSE f[n] + SumTo(f, n - 1)

Coef(a, i) == IF i >= 1 /\ i <= Len(a) THEN a[i] ELSE 0

Max(a, b) == IF a >= b THEN a ELSE b

PolyAdd(a, b) == [i \in 1..Max(Len(a), Len(b)) |-> Coef(a, i) + Coef(b, i)]

PolyMul(a, b) ==
    [k \in 1..(Len(a) + Len(b) - 1) |->
        SumTo([i \in 1..k |-> Coef(a, i) * Coef(b, k - i + 1)], k)]

PolyScale(a, c) == [i \in 1..Len(a) |-> c * a[i]]

PolyEq(a, b) == \A i \in 1..Max(Len(a), Len(b)) : Coef(a, i) = Coef(b, i)

Rat(n, d) == [num |-> n, den |-> d]

RatAdd(x, y) ==
    Rat(PolyAdd(PolyMul(x.num, y.den), PolyMul(y.num, x.den)), PolyMul(x.den, y.den))

RatNeg(x) == Rat(PolyScale(x.num, -1), x.den)

RatDivInt(x, k) == Rat(x.num, PolyScale(x.den, k))

RatEq(x, y) == PolyEq(PolyMul(x.num, y.den), PolyMul(y.num, x.den))

RECURSIVE RatSum(_, _)
RatSum(f, n) == IF n = 1 THEN f[1] ELSE RatAdd(RatSum(f, n - 1), f[n])

\* tf.reduce_mean of a non-empty list of values
reduce_mean(f, n) == RatDivInt(RatSum(f, n), n)

(***************************************************************************)
(* IOU_, lines 240-264.  y_pred2 and y_true2 are [sample -> [pixel ->      *)
(* value]] (the reshape to [-1, H * W]); the result is the mean over the   *)
(* batch of (2 * sum(pred * true) + eps) / (sum(pred) + sum(true) + eps).  *)
(***************************************************************************)
IOU_(y_pred2, y_true2) ==
    LET N == Len(y_pred2)
        P == Len(y_pred2[1])
        intersection(n) ==
            <<2 * SumTo([p \in 1..P |-> y_pred2[n][p] * y_true2[n][p]], P), 1>>
        denominator(n) ==
            <<SumTo(y_pred2[n], P) + SumTo(y_true2[n], P), 1>>
    IN  reduce_mean([n \in 1..N |-> Rat(intersection(n), denominator(n))], N)

\* y_pred[:, :, :, cc]
Channel(yp, cc) == [n \in 1..Len(yp) |-> [p \in 1..Len(yp[n]) |-> yp[n][p][cc]]]

\* tf.cast(tf.equal(y_true, cc), tf.float32)
Equal(yt, cc) ==
    [n \in 1..Len(yt) |-> [p \in 1..Len(yt[n]) |-> IF yt[n][p] = cc THEN 1 ELSE 0]]

(***************************************************************************)
(* sparse_iou, lines 233-238: the mean over the channels cc of             *)
(* IOU_(y_pred[:,:,:,cc], y_true == cc).                                   *)
(***************************************************************************)
sparse_iou(yp, yt) ==
    LET channels == Cardinality(DOMAIN yp[1][1])
    IN  reduce_mean([c \in 1..channels |-> IOU_(Channel(yp, c - 1), Equal(yt, c - 1))],
                    channels)

\* the loss of the commented-out line 286: -IOU_(y_pred, y_true)
make_train_op_loss_IOU(yp, yt) == RatNeg(IOU_(Channel(yp, 0), yt))

\* make_train_op, line 287: the loss handed to optim.minimize
make_train_op_loss(yp, yt) == RatNeg(sparse_iou(yp, yt))

\* main, line 395: IOU_op
IOU_op(yp, yt) == sparse_iou(yp, yt)

(***************************************************************************)
(* The shapes of the U-Net graph.  A shape is [N, H, W, C]; an operation   *)
(* whose shape inference raises returns ShapeError.                        *)
(***************************************************************************)
ShapeError == [error |-> "ValueError"]

\* no tensor yet
NoShape == [none |-> TRUE]

Shape(n, h, w, c) == [N |-> n, H |-> h, W |-> w, C |-> c]

\* tf.layers.conv2d with a (1, 1) kernel or with padding='same': H and W are kept
conv2d(t, filters) == Shape(t.N, t.H, t.W, filters)

\* tf.layers.max_pooling2d(net, (2, 2), strides=(2, 2)), padding 'valid', line 150
max_pooling2d(t) ==
    IF t.H < 2 \/ t.W < 2 THEN ShapeError
    ELSE Shape(t.N, t.H \div 2, t.W \div 2, t.C)

\* conv_conv_pool, lines 139-145: conv -> bn -> activation, once per entry of n_filters
RECURSIVE conv_bn_relu(_, _, _)
conv_bn_relu(net, n_filters, i) ==
    IF i > Len(n_filters) THEN net
    ELSE conv_bn_relu(conv2d(net, n_filters[i]), n_filters, i + 1)

\* conv_conv_pool, lines 124-152: net when pool is False, else <<net, pool>>
conv_conv_pool(input_, n_filters, pool) ==
    LET net == conv_bn_relu(input_, n_filters, 1)
    IN  IF pool = FALSE THEN net ELSE <<net, max_pooling2d(net)>>

\* upsampling_2D, lines 171-189: resize_nearest_neighbor to (H * H_multi, W * W_multi)
upsampling_2D(tensor, size) ==
    LET target_H == tensor.H * size[1]
        target_W == tensor.W * size[2]
    IN  Shape(tensor.N, target_H, target_W, tensor.C)

\* tf.concat([a, b], axis=-1): every dimension but the last must agree
concat(a, b) ==
    IF a.N = b.N /\ a.H = b.H /\ a.W = b.W THEN Shape(a.N, a.H, a.W, a.C + b.C)
    ELSE ShapeError

\* upsample_concat, lines 155-168
upsample_concat(inputA, input_B) ==
    LET upsample == upsampling_2D(inputA, <<2, 2>>)
    IN  concat(upsample, input_B)

\* the n_filters arguments of make_unet's nine conv_conv_pool calls, lines 211-227
n_filters_of(name) ==
    CASE name = 1 -> <<8, 8>>
      [] name = 2 -> <<16, 16>>
      [] name = 3 -> <<32, 32>>
      [] name = 4 -> <<64, 64>>
      [] name = 5 -> <<128, 128>>
      [] name = 6 -> <<64, 64>>
      [] name = 7 -> <<32, 32>>
      [] name = 8 -> <<16, 16>>
      [] name = 9 -> <<8, 8>>

InputChannels == 3     \* main, line 368: X is [None, height, w, 3]

IdleU ==
    /\ pcU = "idle"
    /\ X = Shape(1, 1, 1, InputChannels)
    /\ classesU = 1
    /\ tensors = <<>>
    /\ concats = <<>>
    /\ output = NoShape

InitU ==
    /\ pcU = "color_space_adjust"
    /\ X \in {Shape(n, h, w, InputChannels) : n \in 1..MaxBatch, h \in 1..MaxSide, w \in 1..MaxSide}
    /\ classesU \in 1..MaxClasses
    /\ tensors = <<>>
    /\ concats = <<>>
    /\ output = NoShape

\* make_unet, lines 209-210
ColorSpaceAdjust ==
    /\ pcU = "color_space_adjust"
    /\ tensors' = <<conv2d(X, 3)>>
    /\ pcU' = "contract"
    /\ UNCHANGED <<X, classesU, concats, output>>
    /\ UNCHANGED <<varsI, varsA, varsM>>

\* tensors is the sequence net, conv1, pool1, ..., conv4, pool4, conv5, ..., conv9
convOf(ts, name) == IF name <= 4 THEN ts[2 * name] ELSE ts[name + 5]
poolOf(ts, name) == IF name = 0 THEN ts[1] ELSE ts[2 * name + 1]

\* make_unet, lines 211-214: conv<k>, pool<k> = conv_conv_pool(pool<k-1>, ..., name=k)
ContractingStage ==
    /\ pcU = "contract"
    /\ LET name == (Len(tensors) + 1) \div 2
           r == conv_conv_pool(poolOf(tensors, name - 1), n_filters_of(name), TRUE)
       IN  IF r[2] = ShapeError
           THEN /\ pcU' = "ValueError"
                /\ tensors' = Append(tensors, r[1])
           ELSE /\ pcU' = IF name = 4 THEN "bottom" ELSE "contract"
                /\ tensors' = tensors \o r
    /\ UNCHANGED <<X, classesU, concats, output>>
    /\ UNCHANGED <<varsI, varsA, varsM>>

\* make_unet, line 215: conv5
Bottom ==
    /\ pcU = "bottom"
    /\ tensors' = Append(tensors, conv_conv_pool(poolOf(tensors, 4), n_filters_of(5), FALSE))
    /\ pcU' = "expand"
    /\ UNCHANGED <<X, classesU, concats, output>>
    /\ UNCHANGED <<varsI, varsA, varsM>>

\* make_unet, lines 217-227: up<k> = upsample_concat(conv<k-1>, conv<10-k>, name=k);
\* conv<k> = conv_conv_pool(up<k>, ..., name=k, pool=False)
ExpandingStage ==
    /\ pcU = "expand"
    /\ LET name == Len(tensors) - 4
           inputA == convOf(tensors, name - 1)
           input_B == convOf(tensors, 10 - name)
           up == upsample_concat(inputA, input_B)
       IN  /\ concats' = Append(concats, [inputA |-> inputA, input_B |-> input_B,
                                           upsample |-> upsampling_2D(inputA, <<2, 2>>),
                                           up |-> up])
           /\ IF up = ShapeError
              THEN /\ pcU' = "ValueError"
                   /\ UNCHANGED tensors
              ELSE /\ pcU' = IF name = 9 THEN "final" ELSE "expand"
                   /\ tensors' = Append(tensors, conv_conv_pool(up, n_filters_of(name), FALSE))
    /\ UNCHANGED <<X, classesU, output>>
    /\ UNCHANGED <<varsI, varsA, varsM>>

\* make_unet, lines 229-230: the final (1, 1) convolution to `classes` channels
Final ==
    /\ pcU = "final"
    /\ output' = conv2d(convOf(tensors, 9), classesU)
    /\ pcU' = "done"
    /\ UNCHANGED <<X, classesU, tensors, concats>>
    /\ UNCHANGED <<varsI, varsA, varsM>>

NextU == ColorSpaceAdjust \/ ContractingStage \/ Bottom \/ ExpandingStage \/ Final


(***************************************************************************)
(* image_augmentation, lines 38-65.  The random draws of the four          *)
(* tf.image.random_* calls are parameters: lr and ud (whether the flip is  *)
(* applied) and delta (the brightness offset), in tenths like the pixel    *)
(* values.  The images of the model are grey (r = g = b).                  *)
(***************************************************************************)
Rows(t) == Len(t)
Cols(t) == Len(t[1])

\* tf.concat([a, b], axis=-1) of two images
concat_channels(a, b) == [h \in 1..Rows(a) |-> [w \in 1..Cols(a) |-> a[h][w] \o b[h][w]]]

flip_left_right(t) == [h \in 1..Rows(t) |-> [w \in 1..Cols(t) |-> t[h][Cols(t) + 1 - w]]]
flip_up_down(t) == [h \in 1..Rows(t) |-> [w \in 1..Cols(t) |-> t[Rows(t) + 1 - h][w]]]

random_flip_left_right(t, lr) == IF lr THEN flip_left_right(t) ELSE t
random_flip_up_down(t, ud) == IF ud THEN flip_up_down(t) ELSE t

\* t[:, :, a:b] with 1-based inclusive channel bounds
slice_channels(t, a, b) == [h \in 1..Rows(t) |-> [w \in 1..Cols(t) |-> SubSeq(t[h][w], a, b)]]

\* tf.image.random_brightness: delta is added to every channel
adjust_brightness(t, delta) ==
    [h \in 1..Rows(t) |-> [w \in 1..Cols(t) |->
        [c \in 1..Len(t[h][w]) |-> t[h][w][c] + delta]]]

\* tf.image.random_hue on a grey image: a pixel without saturation has no hue to
\* rotate, whatever the draw
adjust_hue_grey(t) == t

image_augmentation(img, msk, lr, ud, delta) ==
    LET concat_image == concat_channels(img, msk)
        maybe_flipped_lr == random_flip_left_right(concat_image, lr)      \* line 56
        maybe_flipped == random_flip_up_down(concat_image, ud)            \* line 57
        nch == Len(concat_image[1][1])
        image1 == slice_channels(maybe_flipped, 1, nch - 1)               \* line 59
        mask1 == slice_channels(maybe_flipped, nch, nch)                  \* line 60
    IN  [image |-> adjust_hue_grey(adjust_brightness(image1, delta)), mask |-> mask1]

\* offsets drawn by random_brightness(image, 0.7), in tenths
BrightnessDeltas == {-7, 0, 6}

\* images of the model: pixel (h, w) of an image of width W is grey, of
\* intensity 10 * ((h - 1) * W + w) tenths; a mask pixel is 0 or 255
GreyImage(H, W) == [h \in 1..H |-> [w \in 1..W |->
                        LET v == 10 * ((h - 1) * W + w) IN <<v, v, v>>]]

IdleA ==
    /\ pcA = "idle"
    /\ image = <<>>
    /\ mask = <<>>
    /\ augmented = NoValue

InitA ==
    /\ pcA = "call"
    /\ \E H \in 1..MaxAug, W \in 1..MaxAug :
          /\ image = GreyImage(H, W)
          /\ mask \in [1..H -> [1..W -> {<<0>>, <<VehicleValue>>}]]
    /\ augmented = NoValue

\* get_image_mask, line 113: image, mask = image_augmentation(image, mask)
Augment ==
    /\ pcA = "call"
    /\ \E lr \in BOOLEAN, ud \in BOOLEAN, delta \in BrightnessDeltas :
          augmented' = image_augmentation(image, mask, lr, ud, delta)
    /\ pcA' = "augmented"
    /\ UNCHANGED <<image, mask>>
    /\ UNCHANGED <<varsI, varsU, varsM>>

NextA == Augment

(***************************************************************************)
(* main, lines 359-481.                                                    *)
(*                                                                         *)
(* flags.ckdir on disk is "absent", "empty" (a directory without entries), *)
(* "nonempty" (a directory with entries, none a checkpoint) or             *)
(* "checkpoint" (a directory holding a checkpoint this graph restores).    *)
(***************************************************************************)
DirStates == {"absent", "empty", "nonempty", "checkpoint"}

os_path_exists(d) == d # "absent"

\* tf.train.checkpoint_exists(flags.ckdir), line 429, is handed a directory where
\* the framework expects a checkpoint prefix: for a directory without a
\* checkpoint either answer is taken as possible
checkpoint_exists(d) ==
    CASE d = "checkpoint" -> {TRUE}
      [] d = "absent" -> {FALSE}
      [] OTHER -> BOOLEAN

\* tf.train.latest_checkpoint(flags.ckdir) is not None, lines 430-431
has_latest_checkpoint(d) == d = "checkpoint"

\* os.rmdir(flags.ckdir), line 436: the directory afterwards and the exception raised
os_rmdir(d) ==
    CASE d = "absent" -> [dir |-> d, raised |-> "FileNotFoundError"]
      [] d = "empty" -> [dir |-> "absent", raised |-> "none"]
      [] OTHER -> [dir |-> d, raised |-> "OSError"]

\* os.mkdir(flags.ckdir), line 441
os_mkdir(d) ==
    IF d = "absent" THEN [dir |-> "empty", raised |-> "none"]
    ELSE [dir |-> d, raised |-> "FileExistsError"]

\* lines 435-441: the except clauses catch FileNotFoundError and OSError of rmdir
\* only; mkdir is outside the try statement
rmdir_then_mkdir(d) == os_mkdir(os_rmdir(d).dir)

\* range(0, n, batch_size): whether the loop body runs for the value step
in_range(s, n) == s < n

\* range(0, n, batch_size): the value after s
range_next(s, b) == s + b

\* the fetches of the two session runs of the loops, lines 455-456 and 466-467
train_fetches == {"train_op", "IOU_op", "summary_op", "global_step"}

eval_fetches_with_train_op == {"train_op", "IOU_op", "summary_op"}

eval_fetches == {"IOU_op", "summary_op"}

\* optim.minimize(loss, global_step=global_step), line 293: running train_op
\* updates the variables once and adds one to the global step
run_step(fetches, gs) == IF "train_op" \in fetches THEN gs + 1 ELSE gs

Runners == {"train", "test"}

IdleM ==
    /\ pc = "idle"
    /\ epochs = 0 /\ batch_size = 1 /\ n_train = 0 /\ n_test = 0
    /\ ckdir = "absent" /\ ckpt_step = 0
    /\ epoch = 0 /\ step = 0 /\ global_step = 0 /\ weights = 0 /\ initial_step = 0
    /\ train_iters = 0 /\ eval_iters = 0 /\ mode = "unfed"
    /\ stop_requested = FALSE
    /\ threads = [r \in Runners |-> "unstarted"]
    /\ coord_exc = FALSE
    /\ exc = "none"
    /\ entered_try = FALSE
    /\ shutdown = <<>>
    /\ saves = 0

\* read_flags, lines 317-320: --epochs is any int argparse reads, a negative one too
EpochsValues == {-1} \cup (0..MaxEpochs)

\* the state at line 428, after sess.run(init): every variable is at its initial value
InitM ==
    /\ pc = "startup"
    /\ epochs \in EpochsValues
    /\ batch_size \in 1..MaxBatchSize
    /\ n_train \in 0..MaxLines
    /\ n_test \in 0..MaxLines
    /\ ckdir \in DirStates
    /\ ckpt_step \in 0..MaxCkptStep
    /\ ckdir # "checkpoint" => ckpt_step = 0
    /\ epoch = 0 /\ step = 0 /\ global_step = 0 /\ weights = 0 /\ initial_step = 0
    /\ train_iters = 0 /\ eval_iters = 0 /\ mode = "unfed"
    /\ stop_requested = FALSE
    /\ threads = [r \in Runners |-> "unstarted"]
    /\ coord_exc = FALSE
    /\ exc = "none"
    /\ entered_try = FALSE
    /\ shutdown = <<>>
    /\ saves = 0

\* lines 428-441: restore the latest checkpoint, or make the checkpoint directory
Startup ==
    /\ pc = "startup"
    /\ \E ce \in checkpoint_exists(ckdir) :
          IF os_path_exists(ckdir) /\ ce
          THEN /\ global_step' = IF has_latest_checkpoint(ckdir) THEN ckpt_step ELSE global_step
               /\ pc' = "enter_try"
               /\ UNCHANGED <<ckdir, exc>>
          ELSE LET r == rmdir_then_mkdir(ckdir)
               IN  /\ ckdir' = r.dir
                   /\ exc' = r.raised
                   /\ pc' = IF r.raised = "none" THEN "enter_try" ELSE "raised"
                   /\ UNCHANGED global_step
    /\ UNCHANGED <<varsFlags, ckpt_step, epoch, step, weights, initial_step, train_iters,
                   eval_iters, mode, varsCoord, entered_try, shutdown, saves>>
    /\ UNCHANGED <<varsI, varsU, varsA>>

\* lines 443-447: global_step, coord = Coordinator(), threads = start_queue_runners(...)
EnterTry ==
    /\ pc = "enter_try"
    /\ entered_try' = TRUE
    /\ initial_step' = global_step
    /\ threads' = [r \in Runners |-> "running"]
    /\ pc' = "epoch_head"
    /\ UNCHANGED <<varsFlags, ckdir, ckpt_step, epoch, step, global_step, weights,
                   train_iters, eval_iters, mode, stop_requested, coord_exc, exc,
                   shutdown, saves>>
    /\ UNCHANGED <<varsI, varsU, varsA>>

\* line 449: for epoch in range(flags.epochs)
EpochHead ==
    /\ pc = "epoch_head"
    /\ IF epoch < epochs
       THEN pc' = "train_head" /\ step' = 0
       ELSE pc' = "save" /\ UNCHANGED step
    /\ UNCHANGED <<varsFlags, ckdir, ckpt_step, epoch, global_step, weights, initial_step,
                   train_iters, eval_iters, mode, varsCoord, exc, entered_try, shutdown,
                   saves>>
    /\ UNCHANGED <<varsI, varsU, varsA>>

\* line 451: for step in range(0, n_train, flags.batch_size)
TrainHead ==
    /\ pc = "train_head"
    /\ IF in_range(step, n_train)
       THEN pc' = "train_dequeue" /\ UNCHANGED step
       ELSE pc' = "eval_head" /\ step' = 0
    /\ UNCHANGED <<varsFlags, ckdir, ckpt_step, epoch, global_step, weights, initial_step,
                   train_iters, eval_iters, mode, varsCoord, exc, entered_try, shutdown,
                   saves>>
    /\ UNCHANGED <<varsI, varsU, varsA>>

\* a queue of an input pipeline whose coordinator was asked to stop is closed: a
\* dequeue returns what the queue still holds, or raises OutOfRangeError
DequeueOutcomes == IF stop_requested THEN {"batch", "OutOfRangeError"} ELSE {"batch"}

\* lines 453 and 465: sess.run of the batch operations
Dequeue ==
    /\ pc \in {"train_dequeue", "eval_dequeue"}
    /\ \E r \in DequeueOutcomes :
          IF r = "batch"
          THEN /\ pc' = IF pc = "train_dequeue" THEN "train_run" ELSE "eval_run"
               /\ UNCHANGED exc
          ELSE /\ pc' = "finally_stop"
               /\ exc' = r
    /\ UNCHANGED <<varsFlags, ckdir, ckpt_step, varsLoop, varsCoord, entered_try, shutdown,
                   saves>>
    /\ UNCHANGED <<varsI, varsU, varsA>>

\* lines 455-461: the training run, mode fed True
TrainRun ==
    /\ pc = "train_run"
    /\ mode' = "True"
    /\ global_step' = run_step(train_fetches, global_step)
    /\ weights' = run_step(train_fetches, weights)
    /\ train_iters' = train_iters + 1
    /\ step' = range_next(step, batch_size)
    /\ pc' = "train_head"
    /\ UNCHANGED <<varsFlags, ckdir, ckpt_step, epoch, initial_step, eval_iters, varsCoord,
                   exc, entered_try, shutdown, saves>>
    /\ UNCHANGED <<varsI, varsU, varsA>>

\* line 464: for step in range(0, n_test, flags.batch_size); after the loop the
\* next epoch begins
EvalHead ==
    /\ pc = "eval_head"
    /\ IF in_range(step, n_test)
       THEN pc' = "eval_dequeue" /\ UNCHANGED epoch
       ELSE pc' = "epoch_head" /\ epoch' = epoch + 1
    /\ UNCHANGED <<varsFlags, ckdir, ckpt_step, step, global_step, weights, initial_step,
                   train_iters, eval_iters, mode, varsCoord, exc, entered_try, shutdown,
                   saves>>
    /\ UNCHANGED <<varsI, varsU, varsA>>

\* lines 466-474: the evaluation run, mode fed False
EvalRun ==
    /\ pc = "eval_run"
    /\ mode' = "False"
    /\ global_step' = run_step(eval_fetches, global_step)
    /\ weights' = run_step(eval_fetches, weights)
    /\ eval_iters' = eval_iters + 1
    /\ step' = range_next(step, batch_size)
    /\ pc' = "eval_head"
    /\ UNCHANGED <<varsFlags, ckdir, ckpt_step, epoch, initial_step, train_iters, varsCoord,
                   exc, entered_try, shutdown, saves>>
    /\ UNCHANGED <<varsI, varsU, varsA>>

\* a session run of lines 455 or 466 that raises (an operation of the graph fails):
\* the update of train_op was applied before the failure, or was not
RunRaises ==
    /\ pc \in {"train_run", "eval_run"}
    /\ exc' = "OpError"
    /\ mode' = IF pc = "train_run" THEN "True" ELSE "False"
    /\ \E applied \in BOOLEAN :
          LET fetches == IF pc = "train_run" /\ applied THEN train_fetches ELSE eval_fetches
          IN  /\ global_step' = run_step(fetches, global_step)
              /\ weights' = run_step(fetches, weights)
    /\ pc' = "finally_stop"
    /\ UNCHANGED <<varsFlags, ckdir, ckpt_step, epoch, step, initial_step, train_iters,
                   eval_iters, varsCoord, entered_try, shutdown, saves>>
    /\ UNCHANGED <<varsI, varsU, varsA>>

\* a queue-runner thread whose enqueue operation fails (an image file is missing or
\* cannot be decoded) reports the exception to the coordinator, which asks every
\* thread to stop, and ends
QueueRunnerFails ==
    /\ pc \in {"epoch_head", "train_head", "train_dequeue", "train_run", "eval_head",
               "eval_dequeue", "eval_run", "save"}
    /\ ~stop_requested
    /\ \E r \in Runners :
          /\ threads[r] = "running"
          /\ threads' = [threads EXCEPT ![r] = "failed"]
    /\ coord_exc' = TRUE
    /\ stop_requested' = TRUE
    /\ UNCHANGED <<pc, varsFlags, ckdir, ckpt_step, varsLoop, exc, entered_try, shutdown,
                   saves>>
    /\ UNCHANGED <<varsI, varsU, varsA>>

\* saver.save(sess, "{}/model.ckpt".format(flags.ckdir))
saved_dir(d) == "checkpoint"

\* line 476: the save that ends the try block
Save ==
    /\ pc = "save"
    /\ saves' = saves + 1
    /\ ckdir' = saved_dir(ckdir)
    /\ ckpt_step' = global_step
    /\ pc' = "finally_stop"
    /\ UNCHANGED <<varsFlags, varsLoop, varsCoord, exc, entered_try, shutdown>>
    /\ UNCHANGED <<varsI, varsU, varsA>>

\* line 479: coord.request_stop()
RequestStop ==
    /\ pc = "finally_stop"
    /\ stop_requested' = TRUE
    /\ shutdown' = Append(shutdown, "request_stop")
    /\ pc' = "finally_join"
    /\ UNCHANGED <<varsFlags, ckdir, ckpt_step, varsLoop, threads, coord_exc, exc,
                   entered_try, saves>>
    /\ UNCHANGED <<varsI, varsU, varsA>>

\* line 480: coord.join(threads) waits for the threads to end, then raises the
\* exception a thread reported to the coordinator, if any
Join ==
    /\ pc = "finally_join"
    /\ threads' = [r \in Runners |-> IF threads[r] = "running" THEN "stopped" ELSE threads[r]]
    /\ IF coord_exc
       THEN /\ exc' = "QueueRunnerError"
            /\ pc' = "raised"
            /\ UNCHANGED shutdown
       ELSE /\ shutdown' = Append(shutdown, "join")
            /\ pc' = "finally_save"
            /\ UNCHANGED exc
    /\ UNCHANGED <<varsFlags, ckdir, ckpt_step, varsLoop, stop_requested, coord_exc,
                   entered_try, saves>>
    /\ UNCHANGED <<varsI, varsU, varsA>>

\* line 481: the save of the finally block; the exception that left the try block,
\* if any, is raised again after it
FinalSave ==
    /\ pc = "finally_save"
    /\ saves' = saves + 1
    /\ ckdir' = saved_dir(ckdir)
    /\ ckpt_step' = global_step
    /\ shutdown' = Append(shutdown, "save")
    /\ pc' = IF exc = "none" THEN "done" ELSE "raised"
    /\ UNCHANGED <<varsFlags, varsLoop, varsCoord, exc, entered_try>>
    /\ UNCHANGED <<varsI, varsU, varsA>>

Next ==
    \/ Startup \/ EnterTry \/ EpochHead \/ TrainHead \/ Dequeue \/ TrainRun \/ EvalHead
    \/ EvalRun \/ RunRaises \/ QueueRunnerFails \/ Save \/ RequestStop \/ Join
    \/ FinalSave

(***************************************************************************)
(* The tensors fed to one session run.  A prediction is a hard one: a      *)
(* sigmoid output of 0 or 1 for one channel, a one-hot softmax output for  *)
(* several.  A label is a class index, or 255 (the vehicle mask value of   *)
(* the module docstring).                                                  *)
(***************************************************************************)
PredPixels(C) ==
    IF C = 1 THEN {[c \in {0} |-> v] : v \in {0, 1}}
    ELSE {[c \in 0..(C - 1) |-> IF c = k THEN 1 ELSE 0] : k \in 0..(C - 1)}

TruthValues(C) == (0..(C - 1)) \cup {VehicleValue}

IdleI ==
    /\ pcI = "idle"
    /\ classesI = 1
    /\ y_pred = <<>>
    /\ y_true = <<>>
    /\ lossV = NoValue
    /\ iouV = NoValue

InitI ==
    /\ pcI = "fed"
    /\ classesI \in 1..MaxClasses
    /\ \E N \in 1..MaxBatch, P \in 1..MaxPix :
          /\ N * P <= MaxPix
          /\ y_pred \in [1..N -> [1..P -> PredPixels(classesI)]]
          /\ y_true \in [1..N -> [1..P -> TruthValues(classesI)]]
    /\ lossV = NoValue
    /\ iouV = NoValue

\* main, lines 455-459: sess.run([train_op, IOU_op, ...]) with the batch fed
SessRunTrain ==
    /\ pcI = "fed"
    /\ pcI' = "train"
    /\ lossV' = make_train_op_loss(y_pred, y_true)
    /\ iouV' = IOU_op(y_pred, y_true)
    /\ UNCHANGED <<classesI, y_pred, y_true>>
    /\ UNCHANGED <<varsU, varsA, varsM>>

\* main, lines 466-470: sess.run([IOU_op, summary_op]) with the test batch fed
SessRunEval ==
    /\ pcI = "fed"
    /\ pcI' = "eval"
    /\ iouV' = IOU_op(y_pred, y_true)
    /\ UNCHANGED <<classesI, y_pred, y_true, lossV>>
    /\ UNCHANGED <<varsU, varsA, varsM>>

NextI == SessRunTrain \/ SessRunEval

InitIOU == InitI /\ IdleU /\ IdleA /\ IdleM

SpecIOU == InitIOU /\ [][NextI]_vars

InitUnet == InitU /\ IdleI /\ IdleA /\ IdleM

SpecUnet == InitUnet /\ [][NextU]_vars

InitAug == InitA /\ IdleI /\ IdleU /\ IdleM

SpecAug == InitAug /\ [][NextA]_vars

Init == InitM /\ IdleI /\ IdleU /\ IdleA

Spec == Init /\ [][Next]_vars

(***************************************************************************)
(* C1: the loss minimised by make_train_op(pred, y) is minus the value of  *)
(* the IOU_op that main reports, for the same pred and y: after every      *)
(* training run of the session, lossV = -iouV.                             *)
(***************************************************************************)
PixelsOf(t) == {q \in (1..Len(t)) \X (1..MaxPix) : q[2] <= Len(t[q[1]])}

C1_LossIsMinusIOU ==
    pcI = "train" => RatEq(lossV, RatNeg(iouV))

\* a training run on a batch of two images and two classes in which one
\* pixel is predicted right and another one wrong
C1_Witness ==
    /\ pcI = "train"
    /\ classesI = 2
    /\ Len(y_pred) = 2
    /\ \E q \in PixelsOf(y_true) :
          y_true[q[1]][q[2]] < classesI /\ y_pred[q[1]][q[2]][y_true[q[1]][q[2]]] = 1
    /\ \E q \in PixelsOf(y_true) :
          y_true[q[1]][q[2]] < classesI /\ y_pred[q[1]][q[2]][y_true[q[1]][q[2]]] = 0
    /\ RatEq(lossV, RatNeg(iouV))

(***************************************************************************)
(* C2: with classes = 1 and a mask of 0 (background) and 255 (vehicle),    *)
(* the pixels counted as positive ground truth are exactly the vehicle     *)
(* pixels of y_true, and the loss equals -IOU_(y_pred, y_true).            *)
(***************************************************************************)
IsBinaryMask(yt) ==
    \A q \in PixelsOf(yt) : yt[q[1]][q[2]] \in {0, VehicleValue}

C2_LossIsIOUOfVehicleMask ==
    (pcI = "train" /\ classesI = 1 /\ IsBinaryMask(y_true)) =>
        /\ \A q \in PixelsOf(y_true) :
              (Equal(y_true, 0)[q[1]][q[2]] = 1) <=> (y_true[q[1]][q[2]] = VehicleValue)
        /\ RatEq(lossV, RatNeg(IOU_(Channel(y_pred, 0), y_true)))

(***************************************************************************)
(* C3: make_unet returns, for every input height, width and classes, a     *)
(* tensor of the shape (N, H, W, C) of its input X: no construction raises *)
(* and the returned shape is X's.                                          *)
(***************************************************************************)
C3_OutputHasInputShape ==
    /\ pcU # "ValueError"
    /\ pcU = "done" => output = X

(***************************************************************************)
(* C7: every upsample_concat call of make_unet gets an inputA of size      *)
(* (H, W) and an input_B of size exactly (2H, 2W) and yields               *)
(* (N, 2H, 2W, C + C2), the four calls joining 128+64, 64+32, 32+16 and    *)
(* 16+8 channels, for every height and width main accepts.                 *)
(***************************************************************************)
C7_ChannelPairs == <<<<128, 64>>, <<64, 32>>, <<32, 16>>, <<16, 8>>>>

C7_ConcatShapesAgree ==
    \A i \in 1..Len(concats) :
        LET c == concats[i]
        IN  /\ c.input_B.H = 2 * c.inputA.H
            /\ c.input_B.W = 2 * c.inputA.W
            /\ c.up = Shape(c.inputA.N, 2 * c.inputA.H, 2 * c.inputA.W,
                            c.inputA.C + c.input_B.C)
            /\ <<c.inputA.C, c.input_B.C>> = C7_ChannelPairs[i]

(***************************************************************************)
(* C5: each of the four flip combinations (none, left-right only, up-down  *)
(* only, both) is a possible geometric outcome of one call of              *)
(* image_augmentation: for each of them some draw of the random values     *)
(* returns the image and the mask flipped that way.                        *)
(***************************************************************************)
C5_Flipped(t, lr, ud) ==
    LET a == IF lr THEN flip_left_right(t) ELSE t
    IN  IF ud THEN flip_up_down(a) ELSE a

C5_AllFourFlipsPossible ==
    pcA = "augmented" =>
        \A a \in BOOLEAN, b \in BOOLEAN :
            \E lr \in BOOLEAN, ud \in BOOLEAN, delta \in BrightnessDeltas :
                LET r == image_augmentation(image, mask, lr, ud, delta)
                IN  /\ r.mask = C5_Flipped(mask, a, b)
                    /\ r.image = adjust_brightness(C5_Flipped(image, a, b), delta)

(***************************************************************************)
(* C4: whatever flags.ckdir is at start-up (absent, empty, non-empty       *)
(* without a checkpoint, holding a checkpoint), lines 428-441 raise no     *)
(* exception, the directory exists afterwards, and main goes on to the     *)
(* try block of the training loop.                                         *)
(***************************************************************************)
C4_StartupNeverRaises ==
    /\ ~(pc = "raised" /\ ~entered_try)
    /\ pc = "enter_try" => os_path_exists(ckdir)

(***************************************************************************)
(* C6: once main has left the try block, by completion or by an exception  *)
(* of a training or evaluation step, and has terminated, the finally block *)
(* has asked the coordinator to stop, then joined the threads, then saved  *)
(* a checkpoint, none of the three failing; so a checkpoint was saved at   *)
(* least once.                                                             *)
(***************************************************************************)
C6_ShutdownSavesCheckpoint ==
    (entered_try /\ pc \in {"done", "raised"}) =>
        /\ shutdown = <<"request_stop", "join", "save">>
        /\ saves >= 1
        /\ ckdir = "checkpoint"

(***************************************************************************)
(* C8 as stated: every completed training iteration adds exactly one to    *)
(* the global step (and updates the weights once) and every evaluation     *)
(* iteration leaves both unchanged; a run that ends without exception has  *)
(* made epochs * ceil(n_train / batch_size) training iterations and        *)
(* epochs * ceil(n_test / batch_size) evaluation iterations, and its       *)
(* global step is the initial one plus epochs * ceil(n_train/batch_size).  *)
(***************************************************************************)
CeilDiv(n, b) == (n + b - 1) \div b

C8_StepAdvancesPerTrainingIteration ==
    (entered_try /\ exc = "none") =>
        /\ global_step = initial_step + train_iters
        /\ weights = train_iters

C8_AsStated ==
    /\ C8_StepAdvancesPerTrainingIteration
    /\ pc = "done" =>
          /\ train_iters = epochs * CeilDiv(n_train, batch_size)
          /\ eval_iters = epochs * CeilDiv(n_test, batch_size)
          /\ global_step = initial_step + epochs * CeilDiv(n_train, batch_size)

(***************************************************************************)
(* C8 amended: as C8, with the number of epochs run being max(epochs, 0)   *)
(* (range(flags.epochs) is empty for a negative flags.epochs) and          *)
(* batch_size >= 1: a run that ends without exception has made             *)
(* max(epochs, 0) * ceil(n_train / batch_size) training iterations and     *)
(* max(epochs, 0) * ceil(n_test / batch_size) evaluation iterations, and   *)
(* its global step is the initial one plus the number of training          *)
(* iterations.                                                             *)
(***************************************************************************)
C8_GlobalStepCountsTrainingIterations ==
    /\ C8_StepAdvancesPerTrainingIteration
    /\ pc = "done" =>
          /\ train_iters = Max(epochs, 0) * CeilDiv(n_train, batch_size)
          /\ eval_iters = Max(epochs, 0) * CeilDiv(n_test, batch_size)
          /\ global_step = initial_step + Max(epochs, 0) * CeilDiv(n_train, batch_size)

\* a run restored from a checkpoint at step 1 that ends without exception after
\* two epochs of two training and two evaluation iterations each
C8_Witness ==
    /\ pc = "done"
    /\ epochs = 2 /\ batch_size = 2 /\ n_train = 3 /\ n_test = 3
    /\ initial_step = 1
    /\ train_iters = 4 /\ eval_iters = 4
    /\ global_step = 5
    /\ mode = "False"

====
